---- MODULE Spec2Model ----
(***************************************************************************)
(* Model of the Eight Sleep pod temperature controller (src/code.py).      *)
(*                                                                         *)
(* The program is a set of asyncio coroutines on one thread.  A coroutine  *)
(* runs from one await to the next without interruption, and the HTTP      *)
(* calls (adafruit_requests) are blocking calls, not awaits.  The poll and *)
(* push loops are split at the point where api_lock has been set and the   *)
(* remote call is about to be made; while a loop is at that point no other *)
(* coroutine can run.                                                      *)
(***************************************************************************)
EXTENDS Integers, Sequences, FiniteSets, TLC

VARIABLES
    api_lock,                \* code.py:66
    current_temp,            \* code.py:67
    device_id,               \* code.py:68
    side,                    \* code.py:69
    side_active,             \* code.py:70
    skip_next_display_off,   \* code.py:71
    target_temp,             \* code.py:72
    target_temp_is_pending,  \* code.py:73
    auth,                    \* code.py:76  [access_token, user_id]
    brightness,              \* display.brightness in tenths, code.py:42
    pc,                      \* position of main and of the poll and push loops
    issued,                  \* number of tokens the auth endpoint has issued
    current_text_area,       \* label of the current level [text, color]
    target_text_area,        \* label of the target level [text, color]
    last_set,                \* the *_last_set locals of update_display_loop
    polled,                  \* a poll tick has completed since start-up
    lastOp,                  \* the step taken last
    lastCall                 \* what the remote call of the last step did

vars == <<api_lock, current_temp, device_id, side, side_active,
          skip_next_display_off, target_temp, target_temp_is_pending,
          auth, brightness, pc, issued, current_text_area,
          target_text_area, last_set, polled, lastOp, lastCall>>

display_vars == <<current_text_area, target_text_area, last_set>>

shared == <<api_lock, current_temp, side_active, target_temp,
            target_temp_is_pending>>

----------------------------------------------------------------------------
(* Bounds and the environment's inputs                                     *)

MaxAuth == 3        \* tokens the auth endpoint issues before it only refuses

NoResponse == 0     \* the request raised: no response was received
Statuses == {NoResponse, 200, 401, 500}

\* the statuses the auth endpoint can answer with once it has issued n tokens
AuthStatuses(n) == IF n < MaxAuth THEN Statuses ELSE Statuses \ {200}

\* The responses a call reads: the auth endpoint is asked only after a 401,
\* the request is retried only after a successful re-authentication, and
\* the body is read from the first response.  What a call does not read is
\* left at a fixed value.
AuthIn(s1, n) == IF s1 = 401 THEN AuthStatuses(n) ELSE {NoResponse}
RetryIn(s1, sa) == IF s1 = 401 /\ sa = 200 THEN Statuses ELSE {NoResponse}

\* Levels the device reports, in tenths of a temperature level.  The scale
\* is the one of the pushed currentLevel: target_temp * 10.
HeatLevels == {-100, 5, 26, 100}
TargetLevels == {-100, -15, 25, 95}

MaxTemp == 10
MinTemp == -10

HOT == 13186066      \* 0Xc93412
ZERO == 14737632     \* 0Xe0e0e0
COLD == 4994283      \* 0X4c34eb
White == 16777215    \* 0xFFFFFF

\* a label as setup_display creates it
Label(text) == [text |-> text, color |-> White]
\* before setup_display there is no label
NoLabel == [text |-> "", color |-> 0]
\* the locals of update_display_loop before its first iteration
NothingSet == [current_color |-> ZERO, current_text |-> "---",
               target_color |-> ZERO, target_text |-> "---"]

MeUrl == <<"users", "me">>
TemperatureUrl == <<"users", "me", "temperature">>
DeviceUrl(id) == <<"devices", id>>

NoPayload == <<>>
NoJson == <<>>
NoCall == [fn |-> "none", requests |-> <<>>, statuses |-> <<>>,
           reauths |-> 0, authStatuses |-> <<>>, raised |-> FALSE,
           json |-> NoJson]

----------------------------------------------------------------------------
(* Pure helpers                                                            *)

set_color(temp_level) ==
    IF temp_level > 0 THEN HOT
    ELSE IF temp_level < 0 THEN COLD
    ELSE ZERO

\* str(n) for an integer n
Digit(d) == <<"0", "1", "2", "3", "4", "5", "6", "7", "8", "9">>[d + 1]
RECURSIVE Digits(_)
Digits(n) == IF n < 10 THEN Digit(n) ELSE Digits(n \div 10) \o Digit(n % 10)
Str(n) == IF n < 0 THEN "-" \o Digits(0 - n) ELSE Digits(n)

\* round(x / 10) with a half rounded up
Round10HalfUp(x) == (x + 5) \div 10

\* round(x / 10) for an integer x: Python rounds a half to the even integer
Round10(x) ==
    LET q == x \div 10
        r == x % 10
    IN  IF r < 5 THEN q
        ELSE IF r > 5 THEN q + 1
        ELSE IF q % 2 = 0 THEN q ELSE q + 1

\* get_8s_access_token storing the token into the old record
get_8s_access_token_in_place(a, n, st) ==
    IF st # 200
    THEN [raised |-> TRUE, auth |-> a, issued |-> n]
    ELSE [raised |-> FALSE,
          auth |-> [a EXCEPT !.access_token = n + 1],
          issued |-> n + 1]

\* get_8s_access_token: a is the Auth Record, n the tokens issued so far,
\* st the status of the auth endpoint.  The k-th auth response carries
\* access_token k and userId k.
get_8s_access_token(a, n, st) ==
    IF st # 200
    THEN [raised |-> TRUE, auth |-> a, issued |-> n]
    ELSE [raised |-> FALSE,
          auth |-> [access_token |-> n + 1, user_id |-> n + 1],
          issued |-> n + 1]

Request(method, url, payload, token) ==
    [method |-> method, url |-> url, payload |-> payload, token |-> token]

\* AfterFirst with the re-authentication taken on every status but 200
AfterFirstAnyStatus(fn, req1, url, a, n, s1, j1, sa, s2) ==
    LET base == [fn |-> fn, requests |-> <<req1>>, statuses |-> <<s1>>,
                 reauths |-> 0, authStatuses |-> <<>>, raised |-> TRUE,
                 json |-> NoJson, auth |-> a, issued |-> n]
    IN  IF s1 = NoResponse THEN base
        ELSE IF s1 # 200
        THEN LET R == get_8s_access_token(a, n, sa)
             IN  IF R.raised
                 THEN [base EXCEPT !.reauths = 1, !.authStatuses = <<sa>>]
                 ELSE [base EXCEPT
                         !.reauths = 1,
                         !.authStatuses = <<sa>>,
                         !.auth = R.auth,
                         !.issued = R.issued,
                         !.requests = <<req1, Request("GET", url, NoPayload,
                                                     R.auth.access_token)>>,
                         !.statuses = <<s1, s2>>]
        ELSE [base EXCEPT !.raised = FALSE, !.json = j1]

\* The part of get_8s and put_8s that follows the first request (the two
\* functions have the same text there): s1 is the status of the first
\* response, sa the status of the auth endpoint, s2 the status of the
\* retried request; j1 is the JSON body of the first response.
AfterFirst(fn, req1, url, a, n, s1, j1, sa, s2) ==
    LET base == [fn |-> fn, requests |-> <<req1>>, statuses |-> <<s1>>,
                 reauths |-> 0, authStatuses |-> <<>>, raised |-> TRUE,
                 json |-> NoJson, auth |-> a, issued |-> n]
    IN  IF s1 = NoResponse THEN base
        ELSE IF s1 = 401
        THEN LET R == get_8s_access_token(a, n, sa)
             IN  IF R.raised
                 THEN [base EXCEPT !.reauths = 1, !.authStatuses = <<sa>>]
                 ELSE [base EXCEPT
                         !.reauths = 1,
                         !.authStatuses = <<sa>>,
                         !.auth = R.auth,
                         !.issued = R.issued,
                         !.requests = <<req1, Request("GET", url, NoPayload,
                                                     R.auth.access_token)>>,
                         !.statuses = <<s1, s2>>]
        ELSE IF s1 # 200 THEN base
        ELSE [base EXCEPT !.raised = FALSE, !.json = j1]

get_8s(url, a, n, s1, j1, sa, s2) ==
    AfterFirst("get_8s", Request("GET", url, NoPayload, a.access_token),
               url, a, n, s1, j1, sa, s2)

put_8s(url, payload, a, n, s1, j1, sa, s2) ==
    AfterFirst("put_8s", Request("PUT", url, payload, a.access_token),
               url, a, n, s1, j1, sa, s2)

\* what a step records of the call it made
CallLog(c) == [fn |-> c.fn, requests |-> c.requests, statuses |-> c.statuses,
               reauths |-> c.reauths, authStatuses |-> c.authStatuses,
               raised |-> c.raised, json |-> c.json]

----------------------------------------------------------------------------
(* Initial state: the module-level assignments of code.py                  *)

Init ==
    /\ api_lock = FALSE
    /\ current_temp = 0
    /\ device_id = ""
    /\ side = ""
    /\ side_active = FALSE
    /\ skip_next_display_off = TRUE
    /\ target_temp = 0
    /\ target_temp_is_pending = FALSE
    /\ auth = [access_token |-> 0, user_id |-> 0]
    /\ brightness = 1
    /\ pc = [main |-> "start", poll |-> "sleep", push |-> "sleep"]
    /\ issued = 0
    /\ current_text_area = NoLabel
    /\ target_text_area = NoLabel
    /\ last_set = NothingSet
    /\ polled = FALSE
    /\ lastOp = "init"
    /\ lastCall = NoCall

----------------------------------------------------------------------------
(* main: start-up, and the restart of the program after a failure          *)

\* asyncio.gather without return_exceptions, inside asyncio.run: an
\* exception raised by a loop ends main and reaches the handler at the
\* bottom of the file.
PropagateSwallowed(raised) == "gather"
Propagate(raised) == IF raised THEN "failed" ELSE "gather"

\* main with the first status of each of its requests drawn from S
MainWith(S) ==
    /\ pc.main = "start"
    /\ \E sa0 \in AuthStatuses(issued) \cap S :
         LET A == get_8s_access_token(auth, issued, sa0)
         IN  IF A.raised
             THEN /\ pc' = [pc EXCEPT !.main = "failed"]
                  /\ lastCall' = [NoCall EXCEPT
                                    !.fn = "get_8s_access_token",
                                    !.authStatuses = <<sa0>>,
                                    !.raised = TRUE]
                  /\ UNCHANGED <<auth, issued, device_id, side>>
             ELSE \E s1 \in S :
                  \E sa \in AuthIn(s1, A.issued) :
                  \E s2 \in RetryIn(s1, sa) :
                    LET C == get_8s(MeUrl, A.auth, A.issued, s1,
                                    <<"dev", "left">>, sa, s2)
                    IN  /\ auth' = C.auth
                        /\ issued' = C.issued
                        /\ lastCall' = CallLog(C)
                        /\ pc' = [pc EXCEPT !.main = Propagate(C.raised)]
                        /\ IF C.raised
                           THEN UNCHANGED <<device_id, side>>
                           ELSE /\ device_id' = C.json[1]
                                /\ side' = C.json[2]
    /\ current_text_area' = Label("---")
    /\ target_text_area' = Label("---")
    /\ lastOp' = "main"
    /\ UNCHANGED <<shared, skip_next_display_off, brightness, last_set,
                   polled>>

Main == MainWith(Statuses)

\* time.sleep(10); supervisor.reload(): code.py runs again from its top
Reload ==
    /\ pc.main = "failed"
    /\ api_lock' = FALSE
    /\ current_temp' = 0
    /\ device_id' = ""
    /\ side' = ""
    /\ side_active' = FALSE
    /\ skip_next_display_off' = TRUE
    /\ target_temp' = 0
    /\ target_temp_is_pending' = FALSE
    /\ auth' = [access_token |-> 0, user_id |-> 0]
    /\ brightness' = 1
    /\ pc' = [main |-> "start", poll |-> "sleep", push |-> "sleep"]
    /\ current_text_area' = NoLabel
    /\ target_text_area' = NoLabel
    /\ last_set' = NothingSet
    /\ polled' = FALSE
    /\ lastOp' = "reload"
    /\ lastCall' = NoCall
    /\ UNCHANGED issued

\* a coroutine is resumed only while every other one is suspended at an await
Resumable == pc.main = "gather" /\ pc.poll = "sleep" /\ pc.push = "sleep"

----------------------------------------------------------------------------
(* get_s8_device_loop                                                      *)

\* the value the loop stores in api_lock before its remote call
PollAcquireForgotten == FALSE
PollAcquire == TRUE

\* api_lock after the remote call of a loop: the release is the last
\* statement of the section and is not reached when the call raises
LockAfterCallStuck(raised) == TRUE
LockAfterCall(raised) == raised

\* target_temp after a poll that received target level lvl
PollTargetAlways(pending, old, lvl) == Round10(lvl)
PollTarget(pending, old, lvl) == IF pending = FALSE THEN Round10(lvl) ELSE old

PollBegin ==
    /\ Resumable
    /\ IF api_lock = FALSE
       THEN /\ api_lock' = PollAcquire
            /\ pc' = [pc EXCEPT !.poll = "call"]
       ELSE UNCHANGED <<api_lock, pc>>
    /\ lastOp' = "poll_begin"
    /\ UNCHANGED display_vars
    /\ UNCHANGED polled
    /\ lastCall' = NoCall
    /\ UNCHANGED <<current_temp, device_id, side, side_active,
                   skip_next_display_off, target_temp,
                   target_temp_is_pending, auth, brightness, issued>>

\* the remote call of a poll tick and what follows it, with the status of
\* the first response drawn from S
PollCallWith(S) ==
    /\ pc.main = "gather"
    /\ pc.poll = "call"
    /\ \E s1 \in S, active \in BOOLEAN,
          heat \in HeatLevels, lvl \in TargetLevels :
       \E sa \in AuthIn(s1, issued) :
       \E s2 \in RetryIn(s1, sa) :
         LET C == get_8s(DeviceUrl(device_id), auth, issued, s1,
                         <<active, heat, lvl>>, sa, s2)
         IN  /\ auth' = C.auth
             /\ issued' = C.issued
             /\ lastCall' = CallLog(C)
             /\ api_lock' = LockAfterCall(C.raised)
             /\ polled' = (polled \/ ~C.raised)
             /\ IF C.raised
                THEN /\ pc' = [pc EXCEPT !.main = Propagate(TRUE)]
                     /\ UNCHANGED <<side_active, current_temp, target_temp>>
                ELSE /\ side_active' = C.json[1]
                     /\ current_temp' = Round10(C.json[2])
                     /\ target_temp' = PollTarget(target_temp_is_pending,
                                                  target_temp, C.json[3])
                     /\ pc' = [pc EXCEPT !.poll = "sleep",
                                         !.main = Propagate(FALSE)]
    /\ lastOp' = "poll_call"
    /\ UNCHANGED display_vars
    /\ UNCHANGED <<device_id, side, skip_next_display_off,
                   target_temp_is_pending, brightness>>

PollCall == PollCallWith(Statuses)

----------------------------------------------------------------------------
(* set_s8_target_temp_loop                                                 *)

PayloadUnscaled(t) == <<t, "smart">>
Payload(t) == <<t * 10, "smart">>

\* target_temp_is_pending after the put_8s call of a push tick
PendingClearedFirst(raised) == FALSE
PendingAfterPush(raised) == raised

\* the two tests that open a push tick
PushDueInverted(pending, lock) == pending /\ lock = TRUE
PushDue(pending, lock) == pending /\ lock = FALSE

PushBegin ==
    /\ Resumable
    /\ IF PushDue(target_temp_is_pending, api_lock)
       THEN /\ api_lock' = TRUE
            /\ pc' = [pc EXCEPT !.push = "call"]
       ELSE UNCHANGED <<api_lock, pc>>
    /\ lastOp' = "push_begin"
    /\ UNCHANGED display_vars
    /\ UNCHANGED polled
    /\ lastCall' = NoCall
    /\ UNCHANGED <<current_temp, device_id, side, side_active,
                   skip_next_display_off, target_temp,
                   target_temp_is_pending, auth, brightness, issued>>

\* the remote call of a push tick and what follows it, with the status of
\* the first response drawn from S
PushCallWith(S) ==
    /\ pc.main = "gather"
    /\ pc.push = "call"
    /\ \E s1 \in S :
       \E sa \in AuthIn(s1, issued) :
       \E s2 \in RetryIn(s1, sa) :
         LET C == put_8s(TemperatureUrl, Payload(target_temp), auth, issued,
                         s1, <<"applied">>, sa, s2)
         IN  /\ auth' = C.auth
             /\ issued' = C.issued
             /\ lastCall' = CallLog(C)
             /\ api_lock' = LockAfterCall(C.raised)
             /\ target_temp_is_pending' = PendingAfterPush(C.raised)
             /\ IF C.raised
                THEN pc' = [pc EXCEPT !.main = Propagate(TRUE)]
                ELSE pc' = [pc EXCEPT !.push = "sleep",
                                      !.main = Propagate(FALSE)]
    /\ lastOp' = "push_call"
    /\ UNCHANGED display_vars
    /\ UNCHANGED polled
    /\ UNCHANGED <<current_temp, device_id, side, side_active,
                   skip_next_display_off, target_temp, brightness>>

PushCall == PushCallWith(Statuses)

----------------------------------------------------------------------------
(* temp_up_loop, temp_down_loop, turn_off_display_loop                     *)

\* display.brightness == 0
DisplayIsOffNever(b) == FALSE
DisplayIsOff(b) == b = 0

CanGoUpLoose(t) == t <= MaxTemp
CanGoUp(t) == t < MaxTemp
CanGoDownLoose(t) == t >= MinTemp
CanGoDown(t) == t > MinTemp

\* one press of the button on D5
TempUp ==
    /\ Resumable
    /\ IF DisplayIsOff(brightness)
       THEN /\ brightness' = 1
            /\ skip_next_display_off' = TRUE
            /\ UNCHANGED <<target_temp, target_temp_is_pending>>
       ELSE /\ IF CanGoUp(target_temp)
               THEN /\ target_temp' = target_temp + 1
                    /\ target_temp_is_pending' = TRUE
               ELSE UNCHANGED <<target_temp, target_temp_is_pending>>
            /\ UNCHANGED <<brightness, skip_next_display_off>>
    /\ lastOp' = "up"
    /\ UNCHANGED display_vars
    /\ UNCHANGED polled
    /\ lastCall' = NoCall
    /\ UNCHANGED <<api_lock, current_temp, device_id, side, side_active,
                   auth, pc, issued>>

\* one press of the button on D6
TempDown ==
    /\ Resumable
    /\ IF DisplayIsOff(brightness)
       THEN /\ brightness' = 1
            /\ skip_next_display_off' = TRUE
            /\ UNCHANGED <<target_temp, target_temp_is_pending>>
       ELSE /\ IF CanGoDown(target_temp)
               THEN /\ target_temp' = target_temp - 1
                    /\ target_temp_is_pending' = TRUE
               ELSE UNCHANGED <<target_temp, target_temp_is_pending>>
            /\ UNCHANGED <<brightness, skip_next_display_off>>
    /\ lastOp' = "down"
    /\ UNCHANGED display_vars
    /\ UNCHANGED polled
    /\ lastCall' = NoCall
    /\ UNCHANGED <<api_lock, current_temp, device_id, side, side_active,
                   auth, pc, issued>>

TurnOffDisplay ==
    /\ Resumable
    /\ IF skip_next_display_off
       THEN /\ skip_next_display_off' = FALSE
            /\ UNCHANGED brightness
       ELSE /\ brightness' = 0
            /\ UNCHANGED skip_next_display_off
    /\ lastOp' = "display_off"
    /\ UNCHANGED display_vars
    /\ UNCHANGED polled
    /\ lastCall' = NoCall
    /\ UNCHANGED <<api_lock, current_temp, device_id, side, side_active,
                   target_temp, target_temp_is_pending, auth, pc, issued>>

----------------------------------------------------------------------------
(* update_display_loop                                                     *)

\* the text written to the target label, if any: shown is the text last set
TargetText(shown, t, active) ==
    IF shown # Str(t)
    THEN IF active THEN Str(t) ELSE "Off"
    ELSE shown

\* one iteration of the loop
UpdateDisplay ==
    /\ Resumable
    /\ LET current_color == set_color(current_temp)
           target_color == set_color(target_temp)
           current_text == IF last_set.current_text # Str(current_temp)
                           THEN Str(current_temp)
                           ELSE last_set.current_text
           target_text == TargetText(last_set.target_text, target_temp,
                                     side_active)
       IN  /\ current_text_area' =
                 [text |-> IF last_set.current_text # current_text
                           THEN current_text ELSE current_text_area.text,
                  color |-> IF last_set.current_color # current_color
                            THEN current_color ELSE current_text_area.color]
           /\ target_text_area' =
                 [text |-> IF last_set.target_text # Str(target_temp)
                           THEN target_text ELSE target_text_area.text,
                  color |-> IF last_set.target_color # target_color
                            THEN target_color ELSE target_text_area.color]
           /\ last_set' = [current_color |-> current_color,
                           current_text |-> current_text,
                           target_color |-> target_color,
                           target_text |-> target_text]
    /\ lastOp' = "update_display"
    /\ lastCall' = NoCall
    /\ UNCHANGED <<shared, device_id, side, skip_next_display_off, auth,
                   brightness, pc, issued, polled>>

----------------------------------------------------------------------------

Next ==
    \/ Main
    \/ Reload
    \/ PollBegin
    \/ PollCall
    \/ PushBegin
    \/ PushCall
    \/ TempUp
    \/ TempDown
    \/ TurnOffDisplay

Spec == Init /\ [][Next]_vars

\* The program with a remote that accepts every request.  The blocking
\* calls return, and the scheduler resumes the push loop whenever its sleep
\* is over and the other coroutines are suspended.
Accepting == {200}
MainAccepted == MainWith(Accepting)
PollCallAccepted == PollCallWith(Accepting)
PushCallAccepted == PushCallWith(Accepting)

NextAccepted ==
    \/ MainAccepted
    \/ PollBegin
    \/ PollCallAccepted
    \/ PushBegin
    \/ PushCallAccepted
    \/ TempUp
    \/ TempDown
    \/ TurnOffDisplay

SpecAccepted ==
    /\ Init
    /\ [][NextAccepted]_vars
    /\ WF_vars(PollCallAccepted)
    /\ WF_vars(PushCallAccepted)
    /\ SF_vars(PushBegin)

\* The program with its display loop.  update_display_loop writes nothing
\* that another coroutine reads, so Spec and SpecAccepted leave it out.
NextDisplayed ==
    \/ MainAccepted
    \/ PollBegin
    \/ PollCallAccepted
    \/ PushBegin
    \/ PushCallAccepted
    \/ TempUp
    \/ TempDown
    \/ TurnOffDisplay
    \/ UpdateDisplay

SpecDisplayed == Init /\ [][NextDisplayed]_vars

TypeOK ==
    /\ api_lock \in BOOLEAN
    /\ side_active \in BOOLEAN
    /\ target_temp_is_pending \in BOOLEAN
    /\ skip_next_display_off \in BOOLEAN
    /\ brightness \in {0, 1}
    /\ issued \in 0..MaxAuth
    /\ auth.access_token \in 0..MaxAuth

----------------------------------------------------------------------------
(* Properties                                                              *)

TempRange == MinTemp..MaxTemp
IsPress(op) == op \in {"up", "down"}
IsRemoteTick(op) == op \in {"poll_call", "push_call"}
IsClientCall(c) == c.fn \in {"get_8s", "put_8s"}
InSection(loop) == pc[loop] = "call"
Abs(x) == IF x < 0 THEN 0 - x ELSE x

\* C1 (no clobber): a poll tick that starts with target_temp_is_pending true
\* leaves target_temp unchanged, whatever target level the payload carries.
C1_NoClobber ==
    [][(lastOp' \in {"poll_begin", "poll_call"} /\ target_temp_is_pending)
          => target_temp' = target_temp]_vars

\* a poll succeeded while a change was pending and the payload's target
\* level differs from the local target
C1_Witness ==
    /\ lastOp = "poll_call"
    /\ lastCall.raised = FALSE
    /\ target_temp_is_pending
    /\ Round10(lastCall.json[3]) # target_temp

\* C2 (mutual exclusion): at most one of the poll and push loops is inside
\* its remote-call section, api_lock is true exactly while one of them is,
\* and a loop enters its section only from a state where api_lock is false.
C2_MutualExclusion ==
    /\ [](/\ ~(InSection("poll") /\ InSection("push"))
          /\ api_lock <=> (InSection("poll") \/ InSection("push")))
    /\ [][\A loop \in {"poll", "push"} :
            (~InSection(loop) /\ InSection(loop)') => api_lock = FALSE]_vars

\* the push loop is inside its section
C2_Witness == InSection("push") /\ api_lock /\ lastOp = "push_begin"

\* C3 (clamp): a press keeps target_temp in [-10, 10]; a press at the bound
\* changes neither target_temp nor target_temp_is_pending; a press that
\* changes target_temp changes it by exactly 1 and sets the pending flag,
\* and a press that does not change it leaves the flag as it was.
C3_Clamp ==
    [][IsPress(lastOp') =>
         /\ target_temp \in TempRange => target_temp' \in TempRange
         /\ (lastOp' = "up" /\ target_temp = MaxTemp)
               => (target_temp' = target_temp
                   /\ target_temp_is_pending' = target_temp_is_pending)
         /\ (lastOp' = "down" /\ target_temp = MinTemp)
               => (target_temp' = target_temp
                   /\ target_temp_is_pending' = target_temp_is_pending)
         /\ target_temp' = target_temp
               => target_temp_is_pending' = target_temp_is_pending
         /\ target_temp' # target_temp
               => (Abs(target_temp' - target_temp) = 1
                   /\ target_temp_is_pending')]_vars

\* an up press arrived at target_temp = 10 with the display on and nothing
\* pending
C3_Witness ==
    /\ lastOp = "up"
    /\ target_temp = MaxTemp
    /\ target_temp_is_pending = FALSE
    /\ skip_next_display_off = FALSE

C5_RetrySuccessReturned ==
    (IsClientCall(lastCall) /\ lastCall.statuses = <<401, 200>>)
        => lastCall.raised = FALSE

\* C6 as claimed: a first-attempt 401 triggers exactly one re-authentication
\* and exactly one further request, any other first status triggers none,
\* and a non-200 on the retry ends the call with an error.
C6_RetryBoundClaimed ==
    IsClientCall(lastCall) =>
        /\ lastCall.statuses[1] = 401
              => (lastCall.reauths = 1 /\ Len(lastCall.requests) = 2)
        /\ lastCall.statuses[1] # 401
              => (lastCall.reauths = 0 /\ Len(lastCall.requests) = 1)
        /\ (Len(lastCall.statuses) = 2 /\ lastCall.statuses[2] # 200)
              => lastCall.raised

\* C6 (retry bound), amended: a first-attempt 401 triggers exactly one
\* re-authentication, followed by exactly one further request when the
\* re-authentication succeeded and by none when it failed; any other first
\* status triggers neither; a non-200 on the retry ends the call with an
\* error.
C6_RetryBound ==
    IsClientCall(lastCall) =>
        /\ lastCall.statuses[1] = 401
              => /\ lastCall.reauths = 1
                 /\ lastCall.authStatuses = <<200>>
                       => Len(lastCall.requests) = 2
                 /\ lastCall.authStatuses # <<200>>
                       => (Len(lastCall.requests) = 1 /\ lastCall.raised)
        /\ lastCall.statuses[1] # 401
              => (lastCall.reauths = 0 /\ Len(lastCall.requests) = 1)
        /\ (Len(lastCall.statuses) = 2 /\ lastCall.statuses[2] # 200)
              => lastCall.raised

\* a put_8s call received 401 twice
C6_Witness ==
    /\ lastCall.fn = "put_8s"
    /\ lastCall.statuses = <<401, 401>>
    /\ lastCall.reauths = 1

\* C7 (the retry re-issues the original request): the retried request has
\* the method, URL and payload of the first one and carries the access token
\* of the re-authentication.
C7_RetrySameRequest ==
    (IsClientCall(lastCall) /\ Len(lastCall.requests) = 2) =>
        /\ lastCall.requests[2].method = lastCall.requests[1].method
        /\ lastCall.requests[2].url = lastCall.requests[1].url
        /\ lastCall.requests[2].payload = lastCall.requests[1].payload
        /\ lastCall.requests[2].token = auth.access_token

\* C8 (pending follows the push outcome): after a push tick that started
\* with a pending change, target_temp_is_pending is false if put_8s returned
\* and still true if put_8s raised.
C8_PendingFollowsPush ==
    [][lastOp' = "push_call" =>
         /\ target_temp_is_pending
         /\ lastCall'.fn = "put_8s"
         /\ lastCall'.raised => target_temp_is_pending'
         /\ ~lastCall'.raised => ~target_temp_is_pending']_vars

\* a push failed and the change is still pending
C8_Witness ==
    /\ lastOp = "push_call"
    /\ lastCall.raised
    /\ target_temp_is_pending

\* C9 as claimed: every poll or push tick that set api_lock ends with
\* api_lock false, whether the remote call succeeded or failed.
C9_LockAlwaysReleased == IsRemoteTick(lastOp) => api_lock = FALSE

\* C9 (busy flag), amended: a tick whose remote call returned ends with
\* api_lock false; a tick whose remote call raised ends with api_lock true
\* and with main failed, and api_lock is false again after the restart.
C9_LockReleased ==
    /\ IsRemoteTick(lastOp) =>
          /\ ~lastCall.raised => api_lock = FALSE
          /\ lastCall.raised => (api_lock = TRUE /\ pc.main = "failed")
    /\ lastOp = "reload" => api_lock = FALSE

\* a poll failed and the flag is still set
C9_Witness ==
    /\ lastOp = "poll_call"
    /\ lastCall.raised
    /\ api_lock

\* C10 as claimed: after a poll or push iteration whose remote call failed,
\* the loops are all waiting for their next tick and the process keeps
\* running.
C10_SelfHealing ==
    (IsRemoteTick(lastOp) /\ lastCall.raised)
        => (pc.main = "gather" /\ ~InSection("poll") /\ ~InSection("push"))

\* C10 (failure handling), amended: a poll or push iteration whose remote
\* call failed ends main; from then on no loop takes a step, and the next
\* step is the restart of the program, which puts the Shared Control State
\* back to its initial values and begins again at start-up.
C10_FailureRestarts ==
    /\ []((IsRemoteTick(lastOp) /\ lastCall.raised) => pc.main = "failed")
    /\ [][pc.main = "failed" =>
            /\ lastOp' = "reload"
            /\ pc'.main = "start"
            /\ shared' = <<FALSE, 0, FALSE, 0, FALSE>>]_vars

\* a push failed while the local state differed from the initial one
C10_Witness ==
    /\ pc.main = "failed"
    /\ lastOp = "push_call"
    /\ target_temp # 0
    /\ current_temp # 0

\* the result r is x / 10 rounded to the nearest integer, a half to the even
IsRound10(r, x) ==
    /\ Abs(10 * r - x) <= 5
    /\ Abs(10 * r - x) = 5 => r % 2 = 0

\* C11 (push-latest-value): the first request of every push is a PUT to
\* users/me/temperature whose currentLevel is 10 times the target_temp of
\* the state in which the push tick runs.
C11_PushLatestValue ==
    [][lastOp' = "push_call" =>
         /\ lastCall'.fn = "put_8s"
         /\ lastCall'.requests[1].method = "PUT"
         /\ lastCall'.requests[1].url = TemperatureUrl
         /\ lastCall'.requests[1].payload = <<10 * target_temp, "smart">>]_vars

\* a push sent currentLevel 30 for target_temp 3 and was accepted
C11_Witness ==
    /\ lastOp = "push_call"
    /\ lastCall.raised = FALSE
    /\ lastCall.requests[1].payload[1] = 30
    /\ target_temp = 3
    /\ target_temp_is_pending = FALSE

\* C12 as claimed: every transition of target_temp_is_pending from true to
\* false happens in a push tick whose put_8s returned and whose currentLevel
\* is 10 times the target_temp of the state after the transition.
C12_ClearedOnlyByPush ==
    [][(target_temp_is_pending /\ ~target_temp_is_pending') =>
         /\ lastOp' = "push_call"
         /\ lastCall'.raised = FALSE
         /\ lastCall'.requests[1].payload[1] = 10 * target_temp']_vars

\* C12 (pending cleared only for the pushed value), amended: the flag goes
\* from true to false either in a push tick whose put_8s returned and whose
\* currentLevel is 10 times the target_temp of the state after the
\* transition, or in the restart of the program after a failure, which
\* resets the flag and target_temp without a push.
C12_ClearedByPushOrRestart ==
    [][(target_temp_is_pending /\ ~target_temp_is_pending') =>
         \/ /\ lastOp' = "push_call"
            /\ lastCall'.raised = FALSE
            /\ lastCall'.requests[1].payload[1] = 10 * target_temp'
         \/ /\ lastOp' = "reload"
            /\ pc.main = "failed"
            /\ target_temp' = 0]_vars

\* a push of a level reached by a press returned and cleared the flag
C12_Witness ==
    /\ lastOp = "push_call"
    /\ lastCall.raised = FALSE
    /\ target_temp_is_pending = FALSE
    /\ target_temp = -1
    /\ lastCall.requests[1].payload[1] = -10

\* C16 (poll tick effect): a poll tick whose get_8s returned sets
\* side_active to the payload's active flag and current_temp to
\* round(heatingLevel / 10); it sets target_temp to
\* round(currentTargetLevel / 10) when nothing is pending and leaves it
\* unchanged otherwise; it leaves target_temp_is_pending unchanged and ends
\* with api_lock false.
C16_PollEffect ==
    [][(lastOp' = "poll_call" /\ lastCall'.raised = FALSE) =>
         /\ side_active' = lastCall'.json[1]
         /\ IsRound10(current_temp', lastCall'.json[2])
         /\ IF target_temp_is_pending
            THEN target_temp' = target_temp
            ELSE IsRound10(target_temp', lastCall'.json[3])
         /\ target_temp_is_pending' = target_temp_is_pending
         /\ api_lock' = FALSE]_vars

\* a poll reported an inactive side with levels 5 and 25 while nothing was
\* pending: both halves are rounded to the even neighbour
C16_Witness ==
    /\ lastOp = "poll_call"
    /\ lastCall.raised = FALSE
    /\ lastCall.json = <<FALSE, 5, 25>>
    /\ target_temp_is_pending = FALSE
    /\ current_temp = 0
    /\ target_temp = 2
    /\ side_active = FALSE

\* C18 (Auth Record replaced as a whole): access_token and user_id always
\* come from the same authentication response; the record changes only to
\* the record of the newest response (or to the empty record at a restart),
\* and a failed authentication leaves it unchanged.
C18_AuthWhole ==
    /\ [](auth.access_token = auth.user_id)
    /\ [][/\ auth' # auth =>
               \/ lastOp' = "reload" /\ auth' = [access_token |-> 0,
                                                 user_id |-> 0]
               \/ /\ issued' > issued
                  /\ auth' = [access_token |-> issued', user_id |-> issued']
          /\ (IsRemoteTick(lastOp') /\ lastCall'.authStatuses = <<200>>)
                => (auth' # auth /\ issued' = issued + 1)
          /\ (IsRemoteTick(lastOp') /\ lastCall'.authStatuses # <<200>>)
                => auth' = auth
          /\ (lastOp' = "main" /\ lastCall'.fn = "get_8s_access_token")
                => auth' = auth]_vars

\* a re-authentication inside a poll replaced the record of start-up
C18_Witness ==
    /\ lastOp = "poll_call"
    /\ lastCall.authStatuses = <<200>>
    /\ auth = [access_token |-> 2, user_id |-> 2]

\* C19 (the busy branches are dead): api_lock is false whenever the poll and
\* push loops are both suspended, so a tick never finds api_lock true.
C19_LockFreeAtAwait ==
    (pc.poll = "sleep" /\ pc.push = "sleep") => api_lock = FALSE

\* both loops are suspended again after a push whose put_8s returned
C19_Witness ==
    /\ Resumable
    /\ lastOp = "push_call"
    /\ lastCall.fn = "put_8s"
    /\ lastCall.raised = FALSE
    /\ api_lock = FALSE

\* C20 (wake-up press): a press with the display off turns the display on,
\* sets skip_next_display_off and leaves target_temp and
\* target_temp_is_pending unchanged; skip_next_display_off stays set until
\* the next tick of turn_off_display_loop, and that tick clears it and does
\* not blank the display.
C20_WakeUpPress ==
    [][/\ (IsPress(lastOp') /\ brightness = 0) =>
             /\ brightness' = 1
             /\ skip_next_display_off'
             /\ target_temp' = target_temp
             /\ target_temp_is_pending' = target_temp_is_pending
       /\ (skip_next_display_off /\ lastOp' # "display_off")
             => skip_next_display_off'
       /\ (skip_next_display_off /\ lastOp' = "display_off")
             => (brightness' = brightness /\ ~skip_next_display_off')]_vars

\* an up press away from the bound changed nothing but the display
C20_Witness ==
    /\ lastOp = "up"
    /\ brightness = 1
    /\ skip_next_display_off
    /\ target_temp = 2
    /\ target_temp_is_pending = FALSE

\* C13 (eventual convergence): with a remote that accepts requests and a
\* fairly scheduled push loop, every state with a pending change is followed
\* by a state in which the flag is false and the push just accepted by the
\* remote carried 10 times target_temp.
C13_Convergence ==
    target_temp_is_pending ~>
        (/\ target_temp_is_pending = FALSE
         /\ lastOp = "push_call"
         /\ lastCall.raised = FALSE
         /\ lastCall.requests[1].payload[1] = 10 * target_temp)

\* two presses were pushed as one level
C13_Witness ==
    /\ lastOp = "push_call"
    /\ lastCall.raised = FALSE
    /\ target_temp_is_pending = FALSE
    /\ target_temp = 4
    /\ lastCall.requests[1].payload[1] = 40

\* C14 (Off for an inactive side): after every iteration of
\* update_display_loop that runs while side_active is false, the target
\* label shows "Off".
C14_OffWhenInactive ==
    (lastOp = "update_display" /\ side_active = FALSE)
        => target_text_area.text = "Off"

\* C15 (placeholder until the first poll): from start-up until the first
\* poll tick has completed, both labels show "---".
C15_PlaceholderUntilPolled ==
    (pc.main # "start" /\ polled = FALSE)
        => (current_text_area.text = "---" /\ target_text_area.text = "---")

====
